---- MODULE Spec2Model ----
(***************************************************************************)
(* Operandi broker: the queue-consuming JobSubmitWorker and                *)
(* JobStatusWorker, the store records they read and write, the HPC gateway *)
(* they call and the message channel that feeds them.                      *)
(*                                                                         *)
(* Every store round-trip, gateway round-trip and acknowledgement of a     *)
(* handler is one step, so that a termination signal, a failing call or    *)
(* the other worker can fall between any two of them.                      *)
(***************************************************************************)
EXTENDS Integers, Sequences, FiniteSets, TLC

(* ------------------------------ bounds --------------------------------- *)
\* Number of workflow jobs (each with its own workspace and submission message).
NumJobs == 2
\* Status-check messages the producer publishes in a run.
MaxStatusMsgs == 2
\* Store or gateway calls that fail in a run.
MaxFaults == 1
\* Times the external supervisor restarts a dead worker process.
MaxRestarts == 1
\* Termination signals sent to the workers in a run.
MaxSignals == 1

Jobs == 1..NumJobs
\* "No value" of a worker field that holds a job/workspace id or a delivery tag.
None == 0

(* --------------------------- store vocabulary -------------------------- *)
StateJob == {"QUEUED", "TRANSFERRING_TO_HPC", "PENDING", "RUNNING",
             "TRANSFERRING_FROM_HPC", "SUCCESS", "FAILED"}
StateWorkspace == {"QUEUED", "TRANSFERRING_TO_HPC", "PENDING",
                   "TRANSFERRING_FROM_HPC", "READY"}
\* The scheduler's vocabulary; UNSET is a handle that was never polled.
StateJobSlurm == {"UNSET", "PENDING", "RUNNING", "COMPLETED", "FAILED", "CANCELLED", "TIMEOUT"}
\* file_groups of a workspace: as uploaded, as re-read from the result METS,
\* or the sentinel list ["CORRUPTED FILE GROUPS"].
FileGroups == {"ORIGINAL", "UPDATED", "CORRUPTED FILE GROUPS"}

\* Submission message bodies: well formed; well formed but naming a
\* workspace_id that has no record in the store; job_id readable but cpus/ram
\* missing or not an integer; not decodable before job_id is read.
SubmitKinds == {"ok", "no_ws", "bad_cpus", "bad_body"}
StatusKinds == {"ok", "bad_body"}
\* A raised error is either a ValueError or any other Exception subclass.
ErrorKinds == {"ValueError", "Exception"}

\* Each job owns one workspace; all jobs belong to one user.
WorkspaceOf(j) == j
\* Workspace.pages_amount
PagesAmount(w) == w + 1

\* A conversion that has no answer for a job the scheduler timed out.
convert_without_timeout(s) ==
    CASE s = "COMPLETED" -> "SUCCESS"
      [] s \in {"PENDING", "UNSET"} -> "PENDING"
      [] s = "RUNNING" -> "RUNNING"
      [] s = "TIMEOUT" -> "UNDEFINED"
      [] OTHER -> "FAILED"

\* StateJob.convert_from_slurm_job: the conversion of the scheduler state.
convert_from_slurm_job(s) ==
    CASE s = "COMPLETED" -> "SUCCESS"
      [] s \in {"PENDING", "UNSET"} -> "PENDING"
      [] s = "RUNNING" -> "RUNNING"
      [] OTHER -> "FAILED"

VARIABLES
    \* JobStateStore
    jobState,      \* WorkflowJob.state, by job id
    wsState,       \* Workspace.state, by workspace id
    fileGroups,    \* Workspace.file_groups, by workspace id
    handles,       \* RemoteJobHandle records of a job, in insertion order
    stats,         \* ProcessingStats of the user
    pagesFor,      \* history: pages added to the stats on behalf of each job
    \* RemoteExecutionGateway
    remote,        \* the scheduler's jobs, by slurm job id (1..Len)
    \* MessageChannel
    msgKind,       \* body of each job's submission message
    subMsg,        \* each submission message: "ready", "unacked" or "acked"
    stFresh,       \* status messages the producer has yet to publish
    stReturned,    \* a status message returned to the queue unacknowledged
    s_delivery,    \* the submit worker's current/last delivery
    t_delivery,    \* the status worker's current/last delivery
    \* environment
    faults,        \* failing calls so far
    signals,       \* termination signals so far
    restarts,      \* worker restarts so far
    \* the worker processes
    sw,            \* JobSubmitWorker: its fields, locals and position
    tw,            \* JobStatusWorker: its fields, locals and position
    \* a second JobStatusWorker instance on the same queue
    o_delivery,    \* its current/last delivery
    ow,            \* its fields, locals and position
    \* Harvester
    hv             \* one call of poll_workflow_job_state: arguments, locals, result

storeVars == <<jobState, wsState, fileGroups, handles, stats, pagesFor>>
chanVars == <<msgKind, subMsg, stFresh, stReturned, s_delivery, t_delivery, o_delivery>>
envVars == <<faults, signals, restarts>>
\* everything but the harvester's call
brokerVars == <<storeVars, remote, chanVars, envVars, sw, tw, ow>>
vars == <<brokerVars, hv>>

\* A delivery of the channel to a worker: open until it is acknowledged;
\* acks counts its acknowledgements, end tells which path acknowledged it.
NoDelivery == [tag |-> None, job |-> None, kind |-> "none", open |-> FALSE,
               acks |-> 0, end |-> "none"]
NoMessage == [job |-> None, kind |-> "none"]

\* JobSubmitWorker.__init__; set_ws_ready and slurm_job_id are locals of
\* __handle_message_failure and prepare_and_trigger_slurm_job, interrupted
\* is the kind of statement a termination signal interrupted, failed_at the
\* step whose error made __callback call __handle_message_failure.
SubFresh ==
    [pc |-> "idle",
     current_message_delivery_tag |-> None,
     current_message_user_id |-> None,
     current_message_ws_id |-> None,
     current_message_job_id |-> None,
     has_consumed_message |-> FALSE,
     set_ws_ready |-> FALSE,
     slurm_job_id |-> None,
     interrupted |-> "none",
     failed_at |-> "none"]

\* What one handling of the status worker has itself written and fetched.
NoEffect == [job |-> "none", ws |-> "none", fg |-> "none", pages_succeed |-> 0,
             pages_failed |-> 0, downloads |-> 0, logs |-> 0]
\* The locals of JobStatusWorker.__callback before the store is read.
StLocals ==
    [old_job_state |-> "none", old_slurm_job_state |-> "none",
     hpc_slurm_job_id |-> None, new_slurm_job_state |-> "none",
     new_job_state |-> "none", updated_file_groups |-> "none", wrote |-> NoEffect]
\* JobStatusWorker.__init__
StFresh ==
    [pc |-> "idle",
     current_message_delivery_tag |-> None,
     current_message_job_id |-> None,
     has_consumed_message |-> FALSE] @@ StLocals

\* The harvester outside poll_workflow_job_state.  seen is the history of
\* what the state queries of one call gave, result the value returned.
NoPoll == [pc |-> "idle", tries |-> 0, tries_left |-> 0, seen |-> << >>,
           result |-> "none"]

(* ------------------------------ Init ----------------------------------- *)
\* The API layer has created every job and its workspace in QUEUED and has
\* published one submission message per job; no worker has consumed anything.
Init ==
    /\ jobState = [j \in Jobs |-> "QUEUED"]
    /\ wsState = [j \in Jobs |-> "QUEUED"]
    /\ fileGroups = [j \in Jobs |-> "ORIGINAL"]
    /\ handles = [j \in Jobs |-> << >>]
    /\ stats = [pages_succeed |-> 0, pages_failed |-> 0]
    /\ pagesFor = [j \in Jobs |-> [pages_succeed |-> 0, pages_failed |-> 0]]
    /\ remote = << >>
    /\ msgKind \in [Jobs -> SubmitKinds]
    /\ subMsg = [j \in Jobs |-> "ready"]
    /\ stFresh = MaxStatusMsgs
    /\ stReturned = NoMessage
    /\ s_delivery = NoDelivery
    /\ t_delivery = NoDelivery
    /\ faults = 0 /\ signals = 0 /\ restarts = 0
    /\ sw = SubFresh
    /\ tw = StFresh
    /\ o_delivery = NoDelivery
    /\ ow = StFresh
    /\ hv = NoPoll

(* ------------------------- shared definitions -------------------------- *)
Dead == {"crashed", "exited"}
\* An external call may fail while the run's fault budget lasts.
CanFail == faults < MaxFaults
\* A worker holds a job while a delivery naming it is open in a live process.
SubHolds(j) == s_delivery.open /\ s_delivery.job = j /\ sw.pc \notin Dead
StHolds(j) == t_delivery.open /\ t_delivery.job = j /\ tw.pc \notin Dead

\* sync_db_increase_processing_stats
IncreaseStats(st, succeed, failed) ==
    [pages_succeed |-> st.pages_succeed + succeed,
     pages_failed |-> st.pages_failed + failed]

\* sync_db_update_workflow_job raises for an id that names no record.
JobRecordExists(j) == j \in Jobs
\* sync_db_get_workspace and sync_db_update_workspace raise for an id that
\* names no record; MissingWs is such an id.
WsRecordExists(w) == w \in Jobs
MissingWs == NumJobs + 1

\* The channel's basic_ack of delivery d on path end.
Acked(d, end) == [d EXCEPT !.open = FALSE, !.acks = @ + 1, !.end = end]

\* The memory of a process that died.
SubGone(pc) == [SubFresh EXCEPT !.pc = pc]
StGone(pc) == [StFresh EXCEPT !.pc = pc]

(* --------------------------- JobSubmitWorker --------------------------- *)
\* The channel invokes __callback with the next submission message; the
\* delivery tag is stored and has_consumed_message set.
SubDeliver ==
    /\ sw.pc = "idle"
    /\ \E j \in Jobs :
        /\ subMsg[j] = "ready"
        /\ ~StHolds(j)
        /\ subMsg' = [subMsg EXCEPT ![j] = "unacked"]
        /\ s_delivery' = [tag |-> s_delivery.tag + 1, job |-> j, kind |-> msgKind[j],
                          open |-> TRUE, acks |-> 0, end |-> "none"]
    /\ sw' = [sw EXCEPT !.pc = "decode",
                        !.current_message_delivery_tag = s_delivery'.tag,
                        !.has_consumed_message = TRUE,
                        !.slurm_job_id = None,
                        !.failed_at = "none"]
    /\ UNCHANGED <<storeVars, remote, msgKind, stFresh, stReturned, t_delivery,
                   envVars, tw, o_delivery, ow, hv>>

\* Enter __handle_message_failure(interruption=False, set_ws_ready=r).
SubFail(w, r) == [w EXCEPT !.pc = "fail_job", !.set_ws_ready = r, !.failed_at = w.pc]

\* A store or gateway call inside one of __callback's try blocks raises.
SubRaise(r) ==
    /\ CanFail
    /\ faults' = faults + 1
    /\ sw' = SubFail(sw, r)

\* A store call outside every try block raises: the exception leaves
\* __callback, the consume loop ends and the process dies.
SubCrash ==
    /\ CanFail
    /\ faults' = faults + 1
    /\ sw' = SubGone("crashed")

\* A decoder that lets a body without an integer cpus pass.
SubDecodeLenient ==
    /\ sw.pc = "decode"
    /\ \/ /\ s_delivery.kind \in {"ok", "bad_cpus"}
          /\ sw' = [sw EXCEPT !.pc = "db_read",
                              !.current_message_user_id = 1,
                              !.current_message_ws_id = WorkspaceOf(s_delivery.job),
                              !.current_message_job_id = s_delivery.job]
       \/ /\ s_delivery.kind = "bad_body"
          /\ sw' = SubFail(sw, FALSE)
    /\ UNCHANGED <<storeVars, remote, chanVars, envVars, tw, ow, hv>>

\* json.loads and the field reads; the fields are assigned in message order.
SubDecode ==
    /\ sw.pc = "decode"
    /\ \/ /\ s_delivery.kind = "ok"
          /\ sw' = [sw EXCEPT !.pc = "db_read",
                              !.current_message_user_id = 1,
                              !.current_message_ws_id = WorkspaceOf(s_delivery.job),
                              !.current_message_job_id = s_delivery.job]
       \/ /\ s_delivery.kind = "no_ws"
          /\ sw' = [sw EXCEPT !.pc = "db_read",
                              !.current_message_user_id = 1,
                              !.current_message_ws_id = MissingWs,
                              !.current_message_job_id = s_delivery.job]
       \/ /\ s_delivery.kind = "bad_cpus"
          /\ sw' = SubFail([sw EXCEPT
                              !.current_message_user_id = 1,
                              !.current_message_ws_id = WorkspaceOf(s_delivery.job),
                              !.current_message_job_id = s_delivery.job], FALSE)
       \/ /\ s_delivery.kind = "bad_body"
          /\ sw' = SubFail(sw, FALSE)
    /\ UNCHANGED <<storeVars, remote, chanVars, envVars, tw, ow, hv>>

\* sync_db_get_workflow and sync_db_get_workspace.
SubDbRead ==
    /\ sw.pc = "db_read"
    /\ \/ /\ WsRecordExists(sw.current_message_ws_id)
          /\ sw' = [sw EXCEPT !.pc = "ws_to_hpc"]
          /\ UNCHANGED faults
       \/ /\ ~WsRecordExists(sw.current_message_ws_id)
          /\ sw' = SubFail(sw, TRUE)
          /\ UNCHANGED faults
       \/ /\ WsRecordExists(sw.current_message_ws_id)
          /\ SubRaise(TRUE)
    /\ UNCHANGED <<storeVars, remote, chanVars, signals, restarts, tw, ow, hv>>

\* A staging that starts without marking the workspace.
SubWsToHpcSkipped ==
    /\ sw.pc = "ws_to_hpc"
    /\ sw' = [sw EXCEPT !.pc = "job_to_hpc"]
    /\ UNCHANGED <<storeVars, remote, chanVars, envVars, tw, ow, hv>>

\* prepare_and_trigger_slurm_job: workspace -> TRANSFERRING_TO_HPC.
SubWsToHpc ==
    /\ sw.pc = "ws_to_hpc"
    /\ \/ /\ wsState' = [wsState EXCEPT ![sw.current_message_ws_id] =
                           "TRANSFERRING_TO_HPC"]
          /\ sw' = [sw EXCEPT !.pc = "job_to_hpc"]
          /\ UNCHANGED faults
       \/ /\ SubRaise(TRUE)
          /\ UNCHANGED wsState
    /\ UNCHANGED <<jobState, fileGroups, handles, stats, pagesFor, remote, chanVars,
                   signals, restarts, tw, ow, hv>>

\* prepare_and_trigger_slurm_job: job -> TRANSFERRING_TO_HPC.
SubJobToHpc ==
    /\ sw.pc = "job_to_hpc"
    /\ \/ /\ jobState' = [jobState EXCEPT ![sw.current_message_job_id] =
                            "TRANSFERRING_TO_HPC"]
          /\ sw' = [sw EXCEPT !.pc = "put_ws"]
          /\ UNCHANGED faults
       \/ /\ SubRaise(TRUE)
          /\ UNCHANGED jobState
    /\ UNCHANGED <<wsState, fileGroups, handles, stats, pagesFor, remote, chanVars,
                   signals, restarts, tw, ow, hv>>

\* hpc_io_transfer.pack_and_put_slurm_workspace.
SubPutWorkspace ==
    /\ sw.pc = "put_ws"
    /\ \/ /\ sw' = [sw EXCEPT !.pc = "trigger"]
          /\ UNCHANGED faults
       \/ SubRaise(TRUE)
    /\ UNCHANGED <<storeVars, remote, chanVars, signals, restarts, tw, ow, hv>>

\* hpc_executor.trigger_slurm_job: the scheduler queues a new job and
\* returns its id; on an error the except branch is entered.
SubTrigger ==
    /\ sw.pc = "trigger"
    /\ \/ /\ remote' = Append(remote, [job |-> sw.current_message_job_id,
                                       state |-> "PENDING"])
          /\ sw' = [sw EXCEPT !.pc = "create_handle", !.slurm_job_id = Len(remote) + 1]
          /\ UNCHANGED faults
       \/ /\ CanFail
          /\ faults' = faults + 1
          /\ sw' = [sw EXCEPT !.pc = "stats_failed"]
          /\ UNCHANGED remote
    /\ UNCHANGED <<storeVars, chanVars, signals, restarts, tw, ow, hv>>

\* The except branch of the trigger: pages_failed += ws_pages_amount, then
\* the error is re-raised (as it is when the increment itself raises).
SubStatsFailed ==
    /\ sw.pc = "stats_failed"
    /\ \/ /\ stats' = IncreaseStats(stats, 0, PagesAmount(sw.current_message_ws_id))
          /\ pagesFor' = [pagesFor EXCEPT ![sw.current_message_job_id].pages_failed =
                            @ + PagesAmount(sw.current_message_ws_id)]
          /\ UNCHANGED faults
       \/ /\ CanFail
          /\ faults' = faults + 1
          /\ UNCHANGED <<stats, pagesFor>>
    /\ sw' = SubFail(sw, TRUE)
    /\ UNCHANGED <<jobState, wsState, fileGroups, handles, remote, chanVars, signals,
                   restarts, tw, ow, hv>>

\* sync_db_create_hpc_slurm_job: a new RemoteJobHandle record is inserted.
SubCreateHandle ==
    /\ sw.pc = "create_handle"
    /\ \/ /\ handles' = [handles EXCEPT ![sw.current_message_job_id] =
                           Append(@, [slurm_id |-> sw.slurm_job_id, state |-> "UNSET"])]
          /\ sw' = [sw EXCEPT !.pc = "job_pending"]
          /\ UNCHANGED faults
       \/ /\ SubRaise(TRUE)
          /\ UNCHANGED handles
    /\ UNCHANGED <<jobState, wsState, fileGroups, stats, pagesFor, remote, chanVars,
                   signals, restarts, tw, ow, hv>>

\* __callback after the trigger: job -> PENDING, outside every try block.
SubJobPending ==
    /\ sw.pc = "job_pending"
    /\ \/ /\ jobState' = [jobState EXCEPT ![sw.current_message_job_id] = "PENDING"]
          /\ sw' = [sw EXCEPT !.pc = "ws_pending"]
          /\ UNCHANGED faults
       \/ /\ SubCrash
          /\ UNCHANGED jobState
    /\ UNCHANGED <<wsState, fileGroups, handles, stats, pagesFor, remote, chanVars,
                   signals, restarts, tw, ow, hv>>

\* __callback: workspace -> PENDING, outside every try block.
SubWsPending ==
    /\ sw.pc = "ws_pending"
    /\ \/ /\ wsState' = [wsState EXCEPT ![sw.current_message_ws_id] = "PENDING"]
          /\ sw' = [sw EXCEPT !.pc = "clear_flag"]
          /\ UNCHANGED faults
       \/ /\ SubCrash
          /\ UNCHANGED wsState
    /\ UNCHANGED <<jobState, fileGroups, handles, stats, pagesFor, remote, chanVars,
                   signals, restarts, tw, ow, hv>>

\* __callback: has_consumed_message = False, before the acknowledgement.
SubClearFlag ==
    /\ sw.pc = "clear_flag"
    /\ sw' = [sw EXCEPT !.pc = "ack", !.has_consumed_message = FALSE]
    /\ UNCHANGED <<storeVars, remote, chanVars, envVars, tw, ow, hv>>

\* A success path that returns without acknowledging.
SubAckSkipped ==
    /\ sw.pc = "ack"
    /\ sw' = [sw EXCEPT !.pc = "idle", !.set_ws_ready = FALSE]
    /\ UNCHANGED <<storeVars, remote, chanVars, envVars, tw, ow, hv>>

\* __callback: ch.basic_ack(delivery_tag=method.delivery_tag); the handler
\* returns and its locals are gone (the id the gateway returned is kept as
\* history until the next delivery).
SubAck ==
    /\ sw.pc = "ack"
    /\ s_delivery' = Acked(s_delivery, "pending")
    /\ subMsg' = [subMsg EXCEPT ![s_delivery.job] = "acked"]
    /\ sw' = [sw EXCEPT !.pc = "idle", !.set_ws_ready = FALSE]
    /\ UNCHANGED <<storeVars, remote, msgKind, stFresh, stReturned, t_delivery,
                   envVars, tw, o_delivery, ow, hv>>

\* __handle_message_failure: job -> FAILED, has_consumed_message = False.
SubFailJob ==
    /\ sw.pc = "fail_job"
    /\ \/ /\ JobRecordExists(sw.current_message_job_id)
          /\ jobState' = [jobState EXCEPT ![sw.current_message_job_id] = "FAILED"]
          /\ sw' = [sw EXCEPT !.pc = IF sw.set_ws_ready THEN "fail_ws" ELSE "fail_ack",
                              !.has_consumed_message = FALSE]
          /\ UNCHANGED faults
       \/ /\ ~JobRecordExists(sw.current_message_job_id)
          /\ sw' = SubGone("crashed")
          /\ UNCHANGED <<jobState, faults>>
       \/ /\ JobRecordExists(sw.current_message_job_id)
          /\ SubCrash
          /\ UNCHANGED jobState
    /\ UNCHANGED <<wsState, fileGroups, handles, stats, pagesFor, remote, chanVars,
                   signals, restarts, tw, ow, hv>>

\* __handle_message_failure, set_ws_ready: workspace -> READY.
SubFailWs ==
    /\ sw.pc = "fail_ws"
    /\ \/ /\ WsRecordExists(sw.current_message_ws_id)
          /\ wsState' = [wsState EXCEPT ![sw.current_message_ws_id] = "READY"]
          /\ sw' = [sw EXCEPT !.pc = "fail_ack"]
          /\ UNCHANGED faults
       \/ /\ ~WsRecordExists(sw.current_message_ws_id)
          /\ sw' = SubGone("crashed")
          /\ UNCHANGED <<wsState, faults>>
       \/ /\ WsRecordExists(sw.current_message_ws_id)
          /\ SubCrash
          /\ UNCHANGED wsState
    /\ UNCHANGED <<jobState, fileGroups, handles, stats, pagesFor, remote, chanVars,
                   signals, restarts, tw, ow, hv>>

\* __handle_message_failure: ack_message of the stored tag, then the
\* current-message fields are reset (the user id is not).
SubFailAck ==
    /\ sw.pc = "fail_ack"
    /\ sw.current_message_delivery_tag = s_delivery.tag
    /\ s_delivery' = Acked(s_delivery, "failed")
    /\ subMsg' = [subMsg EXCEPT ![s_delivery.job] = "acked"]
    /\ sw' = [sw EXCEPT !.pc = "idle",
                        !.current_message_delivery_tag = None,
                        !.current_message_ws_id = None,
                        !.current_message_job_id = None,
                        !.set_ws_ready = FALSE]
    /\ UNCHANGED <<storeVars, remote, msgKind, stFresh, stReturned, t_delivery,
                   envVars, tw, o_delivery, ow, hv>>

\* The except clause, if any, around the statement the handler is at.
InterruptedAt(pc) ==
    CASE pc = "decode" -> "decode"
      [] pc = "trigger" -> "trigger"
      [] pc \in {"db_read", "ws_to_hpc", "job_to_hpc", "put_ws", "stats_failed",
                 "create_handle"} -> "try"
      [] OTHER -> "none"

\* A signal handler that finalizes whatever the flag says.
SubSignalIgnoringFlag ==
    /\ sw.pc \notin Dead \cup {"sig_fail_job", "sig_ack", "sig_disconnect"}
    /\ signals < MaxSignals
    /\ signals' = signals + 1
    /\ sw' = [sw EXCEPT !.pc = "sig_fail_job", !.interrupted = InterruptedAt(sw.pc)]
    /\ UNCHANGED <<storeVars, remote, chanVars, faults, restarts, tw, ow, hv>>

\* SIGINT/SIGTERM reaches the process: signal_handler starts between two
\* steps of whatever the process was doing and tests has_consumed_message.
SubSignal ==
    /\ sw.pc \notin Dead \cup {"sig_fail_job", "sig_ack", "sig_disconnect"}
    /\ signals < MaxSignals
    /\ signals' = signals + 1
    /\ sw' = IF sw.has_consumed_message
               THEN [sw EXCEPT !.pc = "sig_fail_job", !.interrupted = InterruptedAt(sw.pc)]
               ELSE SubGone("sig_disconnect")
    /\ UNCHANGED <<storeVars, remote, chanVars, faults, restarts, tw, ow, hv>>

\* Where an exception raised inside signal_handler lands: in the except
\* clause around the interrupted statement, or outside __callback.
SubExceptTarget(w) ==
    CASE w.interrupted = "decode" -> SubFail([w EXCEPT !.interrupted = "none"], FALSE)
      [] w.interrupted = "trigger" -> [w EXCEPT !.pc = "stats_failed", !.interrupted = "none"]
      [] w.interrupted = "try" -> SubFail([w EXCEPT !.interrupted = "none"], TRUE)
      [] OTHER -> SubGone("crashed")

\* signal_handler -> __handle_message_failure(interruption=True): job ->
\* FAILED, has_consumed_message = False; set_ws_ready is not passed.
SubSigFailJob ==
    /\ sw.pc = "sig_fail_job"
    /\ \/ /\ JobRecordExists(sw.current_message_job_id)
          /\ jobState' = [jobState EXCEPT ![sw.current_message_job_id] = "FAILED"]
          /\ sw' = [sw EXCEPT !.pc = "sig_ack", !.has_consumed_message = FALSE,
                              !.interrupted = "none"]
          /\ UNCHANGED faults
       \/ /\ ~JobRecordExists(sw.current_message_job_id)
          /\ sw' = SubExceptTarget(sw)
          /\ UNCHANGED <<jobState, faults>>
       \/ /\ JobRecordExists(sw.current_message_job_id)
          /\ CanFail
          /\ faults' = faults + 1
          /\ sw' = SubExceptTarget(sw)
          /\ UNCHANGED jobState
    /\ UNCHANGED <<wsState, fileGroups, handles, stats, pagesFor, remote, chanVars,
                   signals, restarts, tw, ow, hv>>

\* An interruption path that hands the message back with a negative
\* acknowledgement instead of acknowledging it.
SubSigNack ==
    /\ sw.pc = "sig_ack"
    /\ sw.current_message_delivery_tag = s_delivery.tag
    /\ s_delivery' = [s_delivery EXCEPT !.open = FALSE, !.end = "interrupted"]
    /\ subMsg' = [subMsg EXCEPT ![s_delivery.job] = "ready"]
    /\ sw' = SubGone("sig_disconnect")
    /\ UNCHANGED <<storeVars, remote, msgKind, stFresh, stReturned, t_delivery,
                   envVars, tw, o_delivery, ow, hv>>

\* __handle_message_failure(interruption=True): ack_message and return.
SubSigAck ==
    /\ sw.pc = "sig_ack"
    /\ sw.current_message_delivery_tag = s_delivery.tag
    /\ s_delivery' = Acked(s_delivery, "interrupted")
    /\ subMsg' = [subMsg EXCEPT ![s_delivery.job] = "acked"]
    /\ sw' = SubGone("sig_disconnect")
    /\ UNCHANGED <<storeVars, remote, msgKind, stFresh, stReturned, t_delivery,
                   envVars, tw, o_delivery, ow, hv>>

\* A shutdown after which the channel keeps the open delivery to itself.
SubSigDisconnectKeeps ==
    /\ sw.pc = "sig_disconnect"
    /\ sw' = SubGone("exited")
    /\ UNCHANGED <<storeVars, remote, chanVars, envVars, tw, ow, hv>>

\* signal_handler: rmq_consumer.disconnect() and exit(0).  The channel
\* returns a delivery that is still open to the queue.
SubSigDisconnect ==
    /\ sw.pc = "sig_disconnect"
    /\ sw' = SubGone("exited")
    /\ subMsg' = IF s_delivery.open THEN [subMsg EXCEPT ![s_delivery.job] = "ready"]
                 ELSE subMsg
    /\ UNCHANGED <<storeVars, remote, msgKind, stFresh, stReturned, s_delivery,
                   t_delivery, envVars, tw, o_delivery, ow, hv>>

\* The supervisor starts a new worker process: __init__ and run().  The
\* connection of the dead process is gone, so its open delivery is back in
\* the queue.
SubRestart ==
    /\ sw.pc \in Dead
    /\ restarts < MaxRestarts
    /\ restarts' = restarts + 1
    /\ subMsg' = IF s_delivery.open THEN [subMsg EXCEPT ![s_delivery.job] = "ready"]
                 ELSE subMsg
    /\ s_delivery' = NoDelivery
    /\ sw' = SubFresh
    /\ UNCHANGED <<storeVars, remote, msgKind, stFresh, stReturned, t_delivery,
                   faults, signals, tw, o_delivery, ow, hv>>

(* --------------------------- JobStatusWorker --------------------------- *)
\* The channel invokes __callback with the next status message: a returned
\* one first, else one the producer publishes now.
StDeliver ==
    /\ tw.pc = "idle"
    /\ \E j \in Jobs, k \in StatusKinds :
        /\ \/ /\ stReturned = [job |-> j, kind |-> k]
              /\ stReturned' = NoMessage
              /\ UNCHANGED stFresh
           \/ /\ stReturned = NoMessage
              /\ stFresh > 0
              /\ stFresh' = stFresh - 1
              /\ UNCHANGED stReturned
        /\ ~SubHolds(j)
        /\ t_delivery' = [tag |-> t_delivery.tag + 1, job |-> j, kind |-> k,
                          open |-> TRUE, acks |-> 0, end |-> "none"]
    /\ tw' = [tw EXCEPT !.pc = "decode",
                        !.current_message_delivery_tag = t_delivery'.tag,
                        !.has_consumed_message = TRUE]
    /\ UNCHANGED <<storeVars, remote, msgKind, subMsg, s_delivery, envVars, sw,
                   o_delivery, ow, hv>>

\* A call inside __handle_hpc_and_workflow_states raises an error of kind k:
\* __callback catches ValueError only; anything else leaves __callback, the
\* consume loop ends and the process dies.
StRaise(k) ==
    /\ CanFail
    /\ faults' = faults + 1
    /\ tw' = IF k = "ValueError" THEN [tw EXCEPT !.pc = "fail_flag"]
             ELSE StGone("crashed")

\* json.loads and the job_id read.
StDecode ==
    /\ tw.pc = "decode"
    /\ \/ /\ t_delivery.kind = "ok"
          /\ tw' = [tw EXCEPT !.pc = "db_read", !.current_message_job_id = t_delivery.job]
       \/ /\ t_delivery.kind = "bad_body"
          /\ tw' = [tw EXCEPT !.pc = "fail_flag"]
    /\ UNCHANGED <<storeVars, remote, chanVars, envVars, sw, ow, hv>>

\* sync_db_get_hpc_slurm_job: the first handle record found for the job.
GetHandle(j) == handles[j][1]

\* sync_db_get_workflow_job, sync_db_get_workspace, sync_db_get_hpc_slurm_job;
\* every exception (a missing record, an unreachable store) is caught here.
StDbRead ==
    /\ tw.pc = "db_read"
    /\ \/ /\ handles[tw.current_message_job_id] # << >>
          /\ tw' = [tw EXCEPT
                !.pc = "poll",
                !.old_job_state = jobState[tw.current_message_job_id],
                !.hpc_slurm_job_id = GetHandle(tw.current_message_job_id).slurm_id,
                !.old_slurm_job_state = GetHandle(tw.current_message_job_id).state]
          /\ UNCHANGED faults
       \/ /\ handles[tw.current_message_job_id] = << >>
          /\ tw' = [tw EXCEPT !.pc = "fail_flag"]
          /\ UNCHANGED faults
       \/ /\ handles[tw.current_message_job_id] # << >>
          /\ CanFail
          /\ faults' = faults + 1
          /\ tw' = [tw EXCEPT !.pc = "fail_flag"]
    /\ UNCHANGED <<storeVars, remote, chanVars, signals, restarts, sw, ow, hv>>

\* The remote batch scheduler moves a job on by itself: queued, running,
\* then one final state that no longer changes.  Its state shows only in
\* the answer to a poll, so remote keeps the state last reported and the
\* next report is that state or any later one.
SlurmLater(s) ==
    CASE s = "PENDING" -> {"PENDING", "RUNNING", "COMPLETED", "FAILED", "CANCELLED"}
      [] s = "RUNNING" -> {"RUNNING", "COMPLETED", "FAILED", "CANCELLED", "TIMEOUT"}
      [] OTHER -> {s}

\* hpc_executor.check_slurm_job_state.
StPoll ==
    /\ tw.pc = "poll"
    /\ \/ /\ \E n \in SlurmLater(remote[tw.hpc_slurm_job_id].state) :
               /\ remote' = [remote EXCEPT ![tw.hpc_slurm_job_id].state = n]
               /\ tw' = [tw EXCEPT
                       !.new_slurm_job_state = n,
                       !.pc = IF tw.old_slurm_job_state # n
                                THEN "update_handle" ELSE "convert"]
          /\ UNCHANGED faults
       \/ /\ \E k \in ErrorKinds : StRaise(k)
          /\ UNCHANGED remote
    /\ UNCHANGED <<storeVars, chanVars, signals, restarts, sw, ow, hv>>

\* A handler that keeps the polled state to itself.
StUpdateHandleSkipped ==
    /\ tw.pc = "update_handle"
    /\ tw' = [tw EXCEPT !.pc = "convert"]
    /\ UNCHANGED <<storeVars, remote, chanVars, envVars, sw, ow, hv>>

\* sync_db_update_hpc_slurm_job, when the polled state differs.
StUpdateHandle ==
    /\ tw.pc = "update_handle"
    /\ \/ /\ handles' = [handles EXCEPT ![t_delivery.job][1].state =
                           tw.new_slurm_job_state]
          /\ tw' = [tw EXCEPT !.pc = "convert"]
          /\ UNCHANGED faults
       \/ /\ \E k \in ErrorKinds : StRaise(k)
          /\ UNCHANGED handles
    /\ UNCHANGED <<jobState, wsState, fileGroups, stats, pagesFor, remote, chanVars,
                   signals, restarts, sw, ow, hv>>

\* A branch that looks at the converted state only.
StBranchOnNewState(old_job_state, new_job_state) ==
    IF new_job_state = "SUCCESS" THEN "log_success"
    ELSE IF new_job_state = "FAILED" THEN "log_failed"
    ELSE "clear_flag"

\* A branch that leaves a job alone while a result transfer is recorded.
StBranchSkippingTransfer(old_job_state, new_job_state) ==
    IF old_job_state = "TRANSFERRING_FROM_HPC" THEN "clear_flag"
    ELSE IF old_job_state # new_job_state /\ new_job_state = "SUCCESS" THEN "log_success"
    ELSE IF old_job_state # new_job_state /\ new_job_state = "FAILED" THEN "log_failed"
    ELSE "clear_flag"

\* The branch taken on the converted state.
StBranch(old_job_state, new_job_state) ==
    IF old_job_state # new_job_state /\ new_job_state = "SUCCESS" THEN "log_success"
    ELSE IF old_job_state # new_job_state /\ new_job_state = "FAILED" THEN "log_failed"
    ELSE "clear_flag"

\* A conversion that also records the converted state in the job.
StConvertRecording ==
    /\ tw.pc = "convert"
    /\ tw' = [tw EXCEPT
            !.new_job_state = convert_from_slurm_job(tw.new_slurm_job_state),
            !.pc = StBranch(tw.old_job_state,
                            convert_from_slurm_job(tw.new_slurm_job_state))]
    /\ jobState' = [jobState EXCEPT ![t_delivery.job] =
                       convert_from_slurm_job(tw.new_slurm_job_state)]
    /\ UNCHANGED <<wsState, fileGroups, handles, stats, pagesFor, remote, chanVars,
                   envVars, sw, ow, hv>>

\* StateJob.convert_from_slurm_job and the comparison with the loaded state.
StConvert ==
    /\ tw.pc = "convert"
    /\ tw' = [tw EXCEPT
            !.new_job_state = convert_from_slurm_job(tw.new_slurm_job_state),
            !.pc = StBranch(tw.old_job_state,
                            convert_from_slurm_job(tw.new_slurm_job_state))]
    /\ UNCHANGED <<storeVars, remote, chanVars, envVars, sw, ow, hv>>

\* download_slurm_job_log_file, the first call of either terminal branch.
StLog(at, next) ==
    /\ tw.pc = at
    /\ \/ /\ tw' = [tw EXCEPT !.pc = next, !.wrote.logs = @ + 1]
          /\ UNCHANGED faults
       \/ \E k \in ErrorKinds : StRaise(k)
    /\ UNCHANGED <<storeVars, remote, chanVars, signals, restarts, sw, ow, hv>>

StLogSuccess == StLog("log_success", "ws_from_hpc")
StLogFailed == StLog("log_failed", "ws_ready_failed")

\* SUCCESS branch: workspace -> TRANSFERRING_FROM_HPC.
StWsFromHpc ==
    /\ tw.pc = "ws_from_hpc"
    /\ \/ /\ wsState' = [wsState EXCEPT ![WorkspaceOf(t_delivery.job)] =
                           "TRANSFERRING_FROM_HPC"]
          /\ tw' = [tw EXCEPT !.pc = "job_from_hpc",
                              !.wrote.ws = "TRANSFERRING_FROM_HPC"]
          /\ UNCHANGED faults
       \/ /\ \E k \in ErrorKinds : StRaise(k)
          /\ UNCHANGED wsState
    /\ UNCHANGED <<jobState, fileGroups, handles, stats, pagesFor, remote, chanVars,
                   signals, restarts, sw, ow, hv>>

\* SUCCESS branch: job -> TRANSFERRING_FROM_HPC.
StJobFromHpc ==
    /\ tw.pc = "job_from_hpc"
    /\ \/ /\ jobState' = [jobState EXCEPT ![t_delivery.job] = "TRANSFERRING_FROM_HPC"]
          /\ tw' = [tw EXCEPT !.pc = "download", !.wrote.job = "TRANSFERRING_FROM_HPC"]
          /\ UNCHANGED faults
       \/ /\ \E k \in ErrorKinds : StRaise(k)
          /\ UNCHANGED jobState
    /\ UNCHANGED <<wsState, fileGroups, handles, stats, pagesFor, remote, chanVars,
                   signals, restarts, sw, ow, hv>>

\* __download_results_from_hpc: get_and_unpack_slurm_workspace.
StDownload ==
    /\ tw.pc = "download"
    /\ \/ /\ tw' = [tw EXCEPT !.pc = "extract", !.wrote.downloads = @ + 1]
          /\ UNCHANGED faults
       \/ \E k \in ErrorKinds : StRaise(k)
    /\ UNCHANGED <<storeVars, remote, chanVars, signals, restarts, sw, ow, hv>>

\* An extraction that lets the error of an unreadable METS out.
StExtractAborting ==
    /\ tw.pc = "extract"
    /\ \/ tw' = [tw EXCEPT !.pc = "ws_ready_success", !.updated_file_groups = "UPDATED"]
       \/ tw' = [tw EXCEPT !.pc = "fail_flag",
                           !.updated_file_groups = "CORRUPTED FILE GROUPS"]
    /\ UNCHANGED <<storeVars, remote, chanVars, envVars, sw, ow, hv>>

\* __extract_updated_file_groups: the file groups of the result METS, or
\* the sentinel when the METS cannot be read; it never raises.
StExtract ==
    /\ tw.pc = "extract"
    /\ \E g \in {"UPDATED", "CORRUPTED FILE GROUPS"} :
          tw' = [tw EXCEPT !.pc = "ws_ready_success", !.updated_file_groups = g]
    /\ UNCHANGED <<storeVars, remote, chanVars, envVars, sw, ow, hv>>

\* A SUCCESS branch that sets the job SUCCESS before the workspace is READY.
StWsReadySuccessLate ==
    /\ tw.pc = "ws_ready_success"
    /\ tw' = [tw EXCEPT !.pc = "job_success"]
    /\ UNCHANGED <<storeVars, remote, chanVars, envVars, sw, ow, hv>>

\* SUCCESS branch: workspace -> READY with the extracted file groups.
StWsReadySuccess ==
    /\ tw.pc = "ws_ready_success"
    /\ \/ /\ wsState' = [wsState EXCEPT ![WorkspaceOf(t_delivery.job)] = "READY"]
          /\ fileGroups' = [fileGroups EXCEPT ![WorkspaceOf(t_delivery.job)] =
                              tw.updated_file_groups]
          /\ tw' = [tw EXCEPT !.pc = "job_success", !.wrote.ws = "READY",
                              !.wrote.fg = tw.updated_file_groups]
          /\ UNCHANGED faults
       \/ /\ \E k \in ErrorKinds : StRaise(k)
          /\ UNCHANGED <<wsState, fileGroups>>
    /\ UNCHANGED <<jobState, handles, stats, pagesFor, remote, chanVars, signals,
                   restarts, sw, ow, hv>>

\* SUCCESS branch: job (found by current_message_job_id) -> SUCCESS.
StJobSuccess ==
    /\ tw.pc = "job_success"
    /\ \/ /\ jobState' = [jobState EXCEPT ![tw.current_message_job_id] = "SUCCESS"]
          /\ tw' = [tw EXCEPT !.pc = "stats_success", !.wrote.job = "SUCCESS"]
          /\ UNCHANGED faults
       \/ /\ \E k \in ErrorKinds : StRaise(k)
          /\ UNCHANGED jobState
    /\ UNCHANGED <<wsState, fileGroups, handles, stats, pagesFor, remote, chanVars,
                   signals, restarts, sw, ow, hv>>

\* A SUCCESS branch that books the pages as failed ones.
StStatsSuccessAsFailed ==
    /\ tw.pc = "stats_success"
    /\ stats' = IncreaseStats(stats, 0, PagesAmount(WorkspaceOf(t_delivery.job)))
    /\ pagesFor' = [pagesFor EXCEPT ![t_delivery.job].pages_failed =
                      @ + PagesAmount(WorkspaceOf(t_delivery.job))]
    /\ tw' = [tw EXCEPT !.pc = "clear_flag",
                        !.wrote.pages_failed =
                            @ + PagesAmount(WorkspaceOf(t_delivery.job))]
    /\ UNCHANGED <<jobState, wsState, fileGroups, handles, remote, chanVars, envVars,
                   sw, ow, hv>>

\* SUCCESS branch: pages_succeed += pages_amount.
StStatsSuccess ==
    /\ tw.pc = "stats_success"
    /\ \/ /\ stats' = IncreaseStats(stats, PagesAmount(WorkspaceOf(t_delivery.job)), 0)
          /\ pagesFor' = [pagesFor EXCEPT ![t_delivery.job].pages_succeed =
                            @ + PagesAmount(WorkspaceOf(t_delivery.job))]
          /\ tw' = [tw EXCEPT !.pc = "clear_flag",
                              !.wrote.pages_succeed =
                                  @ + PagesAmount(WorkspaceOf(t_delivery.job))]
          /\ UNCHANGED faults
       \/ /\ \E k \in ErrorKinds : StRaise(k)
          /\ UNCHANGED <<stats, pagesFor>>
    /\ UNCHANGED <<jobState, wsState, fileGroups, handles, remote, chanVars, signals,
                   restarts, sw, ow, hv>>

\* A FAILED branch that leaves the workspace where it was.
StWsReadyFailedSkipped ==
    /\ tw.pc = "ws_ready_failed"
    /\ tw' = [tw EXCEPT !.pc = "job_failed"]
    /\ UNCHANGED <<storeVars, remote, chanVars, envVars, sw, ow, hv>>

\* FAILED branch: workspace -> READY, no file groups passed.
StWsReadyFailed ==
    /\ tw.pc = "ws_ready_failed"
    /\ \/ /\ wsState' = [wsState EXCEPT ![WorkspaceOf(t_delivery.job)] = "READY"]
          /\ tw' = [tw EXCEPT !.pc = "job_failed", !.wrote.ws = "READY"]
          /\ UNCHANGED faults
       \/ /\ \E k \in ErrorKinds : StRaise(k)
          /\ UNCHANGED wsState
    /\ UNCHANGED <<jobState, fileGroups, handles, stats, pagesFor, remote, chanVars,
                   signals, restarts, sw, ow, hv>>

\* FAILED branch: job (found by current_message_job_id) -> FAILED.
StJobFailed ==
    /\ tw.pc = "job_failed"
    /\ \/ /\ jobState' = [jobState EXCEPT ![tw.current_message_job_id] = "FAILED"]
          /\ tw' = [tw EXCEPT !.pc = "stats_failed", !.wrote.job = "FAILED"]
          /\ UNCHANGED faults
       \/ /\ \E k \in ErrorKinds : StRaise(k)
          /\ UNCHANGED jobState
    /\ UNCHANGED <<wsState, fileGroups, handles, stats, pagesFor, remote, chanVars,
                   signals, restarts, sw, ow, hv>>

\* FAILED branch: pages_failed += pages_amount.
StStatsFailed ==
    /\ tw.pc = "stats_failed"
    /\ \/ /\ stats' = IncreaseStats(stats, 0, PagesAmount(WorkspaceOf(t_delivery.job)))
          /\ pagesFor' = [pagesFor EXCEPT ![t_delivery.job].pages_failed =
                            @ + PagesAmount(WorkspaceOf(t_delivery.job))]
          /\ tw' = [tw EXCEPT !.pc = "clear_flag",
                              !.wrote.pages_failed =
                                  @ + PagesAmount(WorkspaceOf(t_delivery.job))]
          /\ UNCHANGED faults
       \/ /\ \E k \in ErrorKinds : StRaise(k)
          /\ UNCHANGED <<stats, pagesFor>>
    /\ UNCHANGED <<jobState, wsState, fileGroups, handles, remote, chanVars, signals,
                   restarts, sw, ow, hv>>

\* __callback: has_consumed_message = False, before the acknowledgement.
StClearFlag ==
    /\ tw.pc = "clear_flag"
    /\ tw' = [tw EXCEPT !.pc = "ack", !.has_consumed_message = FALSE]
    /\ UNCHANGED <<storeVars, remote, chanVars, envVars, sw, ow, hv>>

\* The handler has returned: its locals are gone, the fields stay.
StReturned(w) ==
    [pc |-> "idle",
     current_message_delivery_tag |-> w.current_message_delivery_tag,
     current_message_job_id |-> w.current_message_job_id,
     has_consumed_message |-> w.has_consumed_message] @@ StLocals

\* __callback: ch.basic_ack(delivery_tag=method.delivery_tag).
StAck ==
    /\ tw.pc = "ack"
    /\ t_delivery' = Acked(t_delivery, "handled")
    /\ tw' = StReturned(tw)
    /\ UNCHANGED <<storeVars, remote, msgKind, subMsg, stFresh, stReturned,
                   s_delivery, envVars, sw, o_delivery, ow, hv>>

\* A failure path that marks the job FAILED, as the submit worker's does.
StFailFlagMarksFailed ==
    /\ tw.pc = "fail_flag"
    /\ jobState' = [jobState EXCEPT ![t_delivery.job] = "FAILED"]
    /\ tw' = [tw EXCEPT !.pc = "fail_ack", !.has_consumed_message = FALSE]
    /\ UNCHANGED <<wsState, fileGroups, handles, stats, pagesFor, remote, chanVars,
                   envVars, sw, ow, hv>>

\* __handle_message_failure: has_consumed_message = False.
StFailFlag ==
    /\ tw.pc = "fail_flag"
    /\ tw' = [tw EXCEPT !.pc = "fail_ack", !.has_consumed_message = FALSE]
    /\ UNCHANGED <<storeVars, remote, chanVars, envVars, sw, ow, hv>>

\* __handle_message_failure: ack_message of the stored tag, then the
\* current-message fields are reset.
StFailAck ==
    /\ tw.pc = "fail_ack"
    /\ tw.current_message_delivery_tag = t_delivery.tag
    /\ t_delivery' = Acked(t_delivery, "dropped")
    /\ tw' = StReturned([tw EXCEPT !.current_message_delivery_tag = None,
                                   !.current_message_job_id = None])
    /\ UNCHANGED <<storeVars, remote, msgKind, subMsg, stFresh, stReturned,
                   s_delivery, envVars, sw, o_delivery, ow, hv>>

\* SIGINT/SIGTERM reaches the process: signal_handler starts and tests
\* has_consumed_message.
StSignal ==
    /\ tw.pc \notin Dead \cup {"sig_ack", "sig_disconnect"}
    /\ signals < MaxSignals
    /\ signals' = signals + 1
    /\ tw' = IF tw.has_consumed_message THEN [tw EXCEPT !.pc = "sig_ack"]
             ELSE StGone("sig_disconnect")
    /\ UNCHANGED <<storeVars, remote, chanVars, faults, restarts, sw, ow, hv>>

\* signal_handler -> __handle_message_failure(interruption=True): the flag
\* is cleared and the delivery acknowledged; nothing is written to the store.
StSigAck ==
    /\ tw.pc = "sig_ack"
    /\ tw.current_message_delivery_tag = t_delivery.tag
    /\ t_delivery' = Acked(t_delivery, "interrupted")
    /\ tw' = StGone("sig_disconnect")
    /\ UNCHANGED <<storeVars, remote, msgKind, subMsg, stFresh, stReturned,
                   s_delivery, envVars, sw, o_delivery, ow, hv>>

\* signal_handler: rmq_consumer.disconnect() and exit(0).  The channel
\* returns a delivery that is still open to the queue.
StSigDisconnect ==
    /\ tw.pc = "sig_disconnect"
    /\ tw' = StGone("exited")
    /\ stReturned' = IF t_delivery.open
                       THEN [job |-> t_delivery.job, kind |-> t_delivery.kind]
                       ELSE stReturned
    /\ UNCHANGED <<storeVars, remote, msgKind, subMsg, stFresh, s_delivery,
                   t_delivery, envVars, sw, o_delivery, ow, hv>>

\* The supervisor starts a new status worker process.
StRestart ==
    /\ tw.pc \in Dead
    /\ restarts < MaxRestarts
    /\ restarts' = restarts + 1
    /\ stReturned' = IF t_delivery.open
                       THEN [job |-> t_delivery.job, kind |-> t_delivery.kind]
                       ELSE stReturned
    /\ t_delivery' = NoDelivery
    /\ tw' = StFresh
    /\ UNCHANGED <<storeVars, remote, msgKind, subMsg, stFresh, s_delivery, faults,
                   signals, sw, o_delivery, ow, hv>>

StatusWorker ==
    \/ StDeliver \/ StDecode \/ StDbRead \/ StPoll \/ StUpdateHandle \/ StConvert
    \/ StLogSuccess \/ StWsFromHpc \/ StJobFromHpc \/ StDownload \/ StExtract
    \/ StWsReadySuccess \/ StJobSuccess \/ StStatsSuccess
    \/ StLogFailed \/ StWsReadyFailed \/ StJobFailed \/ StStatsFailed
    \/ StClearFlag \/ StAck \/ StFailFlag \/ StFailAck
    \/ StSignal \/ StSigAck \/ StSigDisconnect \/ StRestart

SubmitWorker ==
    \/ SubDeliver \/ SubDecode \/ SubDbRead \/ SubWsToHpc \/ SubJobToHpc
    \/ SubPutWorkspace \/ SubTrigger \/ SubStatsFailed \/ SubCreateHandle
    \/ SubJobPending \/ SubWsPending \/ SubClearFlag \/ SubAck
    \/ SubFailJob \/ SubFailWs \/ SubFailAck
    \/ SubSignal \/ SubSigFailJob \/ SubSigAck \/ SubSigDisconnect \/ SubRestart

Next == SubmitWorker \/ StatusWorker

Spec == Init /\ [][Next]_vars

(* ------------------- a second JobStatusWorker instance ------------------ *)
\* The service may run more than one JobStatusWorker process on the status
\* queue; each runs the same code on its own fields (ow, o_delivery).

\* The channel invokes __callback with the next status message: a returned
\* one first, else one the producer publishes now.
OtherDeliver ==
    /\ ow.pc = "idle"
    /\ \E j \in Jobs, k \in StatusKinds :
        /\ \/ /\ stReturned = [job |-> j, kind |-> k]
              /\ stReturned' = NoMessage
              /\ UNCHANGED stFresh
           \/ /\ stReturned = NoMessage
              /\ stFresh > 0
              /\ stFresh' = stFresh - 1
              /\ UNCHANGED stReturned
        /\ ~SubHolds(j)
        /\ o_delivery' = [tag |-> o_delivery.tag + 1, job |-> j, kind |-> k,
                          open |-> TRUE, acks |-> 0, end |-> "none"]
    /\ ow' = [ow EXCEPT !.pc = "decode",
                        !.current_message_delivery_tag = o_delivery'.tag,
                        !.has_consumed_message = TRUE]
    /\ UNCHANGED <<storeVars, remote, msgKind, subMsg, s_delivery, envVars, sw,
                   t_delivery, tw, hv>>

\* A call inside __handle_hpc_and_workflow_states raises an error of kind k:
\* __callback catches ValueError only; anything else leaves __callback, the
\* consume loop ends and the process dies.
OtherRaise(k) ==
    /\ CanFail
    /\ faults' = faults + 1
    /\ ow' = IF k = "ValueError" THEN [ow EXCEPT !.pc = "fail_flag"]
             ELSE StGone("crashed")

\* json.loads and the job_id read.
OtherDecode ==
    /\ ow.pc = "decode"
    /\ \/ /\ o_delivery.kind = "ok"
          /\ ow' = [ow EXCEPT !.pc = "db_read", !.current_message_job_id = o_delivery.job]
       \/ /\ o_delivery.kind = "bad_body"
          /\ ow' = [ow EXCEPT !.pc = "fail_flag"]
    /\ UNCHANGED <<storeVars, remote, chanVars, envVars, sw, tw, hv>>

\* sync_db_get_workflow_job, sync_db_get_workspace, sync_db_get_hpc_slurm_job;
\* every exception (a missing record, an unreachable store) is caught here.
OtherDbRead ==
    /\ ow.pc = "db_read"
    /\ \/ /\ handles[ow.current_message_job_id] # << >>
          /\ ow' = [ow EXCEPT
                !.pc = "poll",
                !.old_job_state = jobState[ow.current_message_job_id],
                !.hpc_slurm_job_id = GetHandle(ow.current_message_job_id).slurm_id,
                !.old_slurm_job_state = GetHandle(ow.current_message_job_id).state]
          /\ UNCHANGED faults
       \/ /\ handles[ow.current_message_job_id] = << >>
          /\ ow' = [ow EXCEPT !.pc = "fail_flag"]
          /\ UNCHANGED faults
       \/ /\ handles[ow.current_message_job_id] # << >>
          /\ CanFail
          /\ faults' = faults + 1
          /\ ow' = [ow EXCEPT !.pc = "fail_flag"]
    /\ UNCHANGED <<storeVars, remote, chanVars, signals, restarts, sw, tw, hv>>

\* hpc_executor.check_slurm_job_state.
OtherPoll ==
    /\ ow.pc = "poll"
    /\ \/ /\ \E n \in SlurmLater(remote[ow.hpc_slurm_job_id].state) :
               /\ remote' = [remote EXCEPT ![ow.hpc_slurm_job_id].state = n]
               /\ ow' = [ow EXCEPT
                       !.new_slurm_job_state = n,
                       !.pc = IF ow.old_slurm_job_state # n
                                THEN "update_handle" ELSE "convert"]
          /\ UNCHANGED faults
       \/ /\ \E k \in ErrorKinds : OtherRaise(k)
          /\ UNCHANGED remote
    /\ UNCHANGED <<storeVars, chanVars, signals, restarts, sw, tw, hv>>

\* sync_db_update_hpc_slurm_job, when the polled state differs.
OtherUpdateHandle ==
    /\ ow.pc = "update_handle"
    /\ \/ /\ handles' = [handles EXCEPT ![o_delivery.job][1].state =
                           ow.new_slurm_job_state]
          /\ ow' = [ow EXCEPT !.pc = "convert"]
          /\ UNCHANGED faults
       \/ /\ \E k \in ErrorKinds : OtherRaise(k)
          /\ UNCHANGED handles
    /\ UNCHANGED <<jobState, wsState, fileGroups, stats, pagesFor, remote, chanVars,
                   signals, restarts, sw, tw, hv>>

\* StateJob.convert_from_slurm_job and the comparison with the loaded state.
OtherConvert ==
    /\ ow.pc = "convert"
    /\ ow' = [ow EXCEPT
            !.new_job_state = convert_from_slurm_job(ow.new_slurm_job_state),
            !.pc = StBranch(ow.old_job_state,
                            convert_from_slurm_job(ow.new_slurm_job_state))]
    /\ UNCHANGED <<storeVars, remote, chanVars, envVars, sw, tw, hv>>

\* download_slurm_job_log_file, the first call of either terminal branch.
OtherLog(at, next) ==
    /\ ow.pc = at
    /\ \/ /\ ow' = [ow EXCEPT !.pc = next, !.wrote.logs = @ + 1]
          /\ UNCHANGED faults
       \/ \E k \in ErrorKinds : OtherRaise(k)
    /\ UNCHANGED <<storeVars, remote, chanVars, signals, restarts, sw, tw, hv>>

OtherLogSuccess == OtherLog("log_success", "ws_from_hpc")
OtherLogFailed == OtherLog("log_failed", "ws_ready_failed")

\* SUCCESS branch: workspace -> TRANSFERRING_FROM_HPC.
OtherWsFromHpc ==
    /\ ow.pc = "ws_from_hpc"
    /\ \/ /\ wsState' = [wsState EXCEPT ![WorkspaceOf(o_delivery.job)] =
                           "TRANSFERRING_FROM_HPC"]
          /\ ow' = [ow EXCEPT !.pc = "job_from_hpc",
                              !.wrote.ws = "TRANSFERRING_FROM_HPC"]
          /\ UNCHANGED faults
       \/ /\ \E k \in ErrorKinds : OtherRaise(k)
          /\ UNCHANGED wsState
    /\ UNCHANGED <<jobState, fileGroups, handles, stats, pagesFor, remote, chanVars,
                   signals, restarts, sw, tw, hv>>

\* SUCCESS branch: job -> TRANSFERRING_FROM_HPC.
OtherJobFromHpc ==
    /\ ow.pc = "job_from_hpc"
    /\ \/ /\ jobState' = [jobState EXCEPT ![o_delivery.job] = "TRANSFERRING_FROM_HPC"]
          /\ ow' = [ow EXCEPT !.pc = "download", !.wrote.job = "TRANSFERRING_FROM_HPC"]
          /\ UNCHANGED faults
       \/ /\ \E k \in ErrorKinds : OtherRaise(k)
          /\ UNCHANGED jobState
    /\ UNCHANGED <<wsState, fileGroups, handles, stats, pagesFor, remote, chanVars,
                   signals, restarts, sw, tw, hv>>

\* __download_results_from_hpc: get_and_unpack_slurm_workspace.
OtherDownload ==
    /\ ow.pc = "download"
    /\ \/ /\ ow' = [ow EXCEPT !.pc = "extract", !.wrote.downloads = @ + 1]
          /\ UNCHANGED faults
       \/ \E k \in ErrorKinds : OtherRaise(k)
    /\ UNCHANGED <<storeVars, remote, chanVars, signals, restarts, sw, tw, hv>>

\* __extract_updated_file_groups: the file groups of the result METS, or
\* the sentinel when the METS cannot be read; it never raises.
OtherExtract ==
    /\ ow.pc = "extract"
    /\ \E g \in {"UPDATED", "CORRUPTED FILE GROUPS"} :
          ow' = [ow EXCEPT !.pc = "ws_ready_success", !.updated_file_groups = g]
    /\ UNCHANGED <<storeVars, remote, chanVars, envVars, sw, tw, hv>>

\* SUCCESS branch: workspace -> READY with the extracted file groups.
OtherWsReadySuccess ==
    /\ ow.pc = "ws_ready_success"
    /\ \/ /\ wsState' = [wsState EXCEPT ![WorkspaceOf(o_delivery.job)] = "READY"]
          /\ fileGroups' = [fileGroups EXCEPT ![WorkspaceOf(o_delivery.job)] =
                              ow.updated_file_groups]
          /\ ow' = [ow EXCEPT !.pc = "job_success", !.wrote.ws = "READY",
                              !.wrote.fg = ow.updated_file_groups]
          /\ UNCHANGED faults
       \/ /\ \E k \in ErrorKinds : OtherRaise(k)
          /\ UNCHANGED <<wsState, fileGroups>>
    /\ UNCHANGED <<jobState, handles, stats, pagesFor, remote, chanVars, signals,
                   restarts, sw, tw, hv>>

\* SUCCESS branch: job (found by current_message_job_id) -> SUCCESS.
OtherJobSuccess ==
    /\ ow.pc = "job_success"
    /\ \/ /\ jobState' = [jobState EXCEPT ![ow.current_message_job_id] = "SUCCESS"]
          /\ ow' = [ow EXCEPT !.pc = "stats_success", !.wrote.job = "SUCCESS"]
          /\ UNCHANGED faults
       \/ /\ \E k \in ErrorKinds : OtherRaise(k)
          /\ UNCHANGED jobState
    /\ UNCHANGED <<wsState, fileGroups, handles, stats, pagesFor, remote, chanVars,
                   signals, restarts, sw, tw, hv>>

\* SUCCESS branch: pages_succeed += pages_amount.
OtherStatsSuccess ==
    /\ ow.pc = "stats_success"
    /\ \/ /\ stats' = IncreaseStats(stats, PagesAmount(WorkspaceOf(o_delivery.job)), 0)
          /\ pagesFor' = [pagesFor EXCEPT ![o_delivery.job].pages_succeed =
                            @ + PagesAmount(WorkspaceOf(o_delivery.job))]
          /\ ow' = [ow EXCEPT !.pc = "clear_flag",
                              !.wrote.pages_succeed =
                                  @ + PagesAmount(WorkspaceOf(o_delivery.job))]
          /\ UNCHANGED faults
       \/ /\ \E k \in ErrorKinds : OtherRaise(k)
          /\ UNCHANGED <<stats, pagesFor>>
    /\ UNCHANGED <<jobState, wsState, fileGroups, handles, remote, chanVars, signals,
                   restarts, sw, tw, hv>>

\* FAILED branch: workspace -> READY, no file groups passed.
OtherWsReadyFailed ==
    /\ ow.pc = "ws_ready_failed"
    /\ \/ /\ wsState' = [wsState EXCEPT ![WorkspaceOf(o_delivery.job)] = "READY"]
          /\ ow' = [ow EXCEPT !.pc = "job_failed", !.wrote.ws = "READY"]
          /\ UNCHANGED faults
       \/ /\ \E k \in ErrorKinds : OtherRaise(k)
          /\ UNCHANGED wsState
    /\ UNCHANGED <<jobState, fileGroups, handles, stats, pagesFor, remote, chanVars,
                   signals, restarts, sw, tw, hv>>

\* FAILED branch: job (found by current_message_job_id) -> FAILED.
OtherJobFailed ==
    /\ ow.pc = "job_failed"
    /\ \/ /\ jobState' = [jobState EXCEPT ![ow.current_message_job_id] = "FAILED"]
          /\ ow' = [ow EXCEPT !.pc = "stats_failed", !.wrote.job = "FAILED"]
          /\ UNCHANGED faults
       \/ /\ \E k \in ErrorKinds : OtherRaise(k)
          /\ UNCHANGED jobState
    /\ UNCHANGED <<wsState, fileGroups, handles, stats, pagesFor, remote, chanVars,
                   signals, restarts, sw, tw, hv>>

\* FAILED branch: pages_failed += pages_amount.
OtherStatsFailed ==
    /\ ow.pc = "stats_failed"
    /\ \/ /\ stats' = IncreaseStats(stats, 0, PagesAmount(WorkspaceOf(o_delivery.job)))
          /\ pagesFor' = [pagesFor EXCEPT ![o_delivery.job].pages_failed =
                            @ + PagesAmount(WorkspaceOf(o_delivery.job))]
          /\ ow' = [ow EXCEPT !.pc = "clear_flag",
                              !.wrote.pages_failed =
                                  @ + PagesAmount(WorkspaceOf(o_delivery.job))]
          /\ UNCHANGED faults
       \/ /\ \E k \in ErrorKinds : OtherRaise(k)
          /\ UNCHANGED <<stats, pagesFor>>
    /\ UNCHANGED <<jobState, wsState, fileGroups, handles, remote, chanVars, signals,
                   restarts, sw, tw, hv>>

\* __callback: has_consumed_message = False, before the acknowledgement.
OtherClearFlag ==
    /\ ow.pc = "clear_flag"
    /\ ow' = [ow EXCEPT !.pc = "ack", !.has_consumed_message = FALSE]
    /\ UNCHANGED <<storeVars, remote, chanVars, envVars, sw, tw, hv>>

\* __callback: ch.basic_ack(delivery_tag=method.delivery_tag).
OtherAck ==
    /\ ow.pc = "ack"
    /\ o_delivery' = Acked(o_delivery, "handled")
    /\ ow' = StReturned(ow)
    /\ UNCHANGED <<storeVars, remote, msgKind, subMsg, stFresh, stReturned,
                   s_delivery, envVars, sw, t_delivery, tw, hv>>

\* __handle_message_failure: has_consumed_message = False.
OtherFailFlag ==
    /\ ow.pc = "fail_flag"
    /\ ow' = [ow EXCEPT !.pc = "fail_ack", !.has_consumed_message = FALSE]
    /\ UNCHANGED <<storeVars, remote, chanVars, envVars, sw, tw, hv>>

\* __handle_message_failure: ack_message of the stored tag, then the
\* current-message fields are reset.
OtherFailAck ==
    /\ ow.pc = "fail_ack"
    /\ ow.current_message_delivery_tag = o_delivery.tag
    /\ o_delivery' = Acked(o_delivery, "dropped")
    /\ ow' = StReturned([ow EXCEPT !.current_message_delivery_tag = None,
                                   !.current_message_job_id = None])
    /\ UNCHANGED <<storeVars, remote, msgKind, subMsg, stFresh, stReturned,
                   s_delivery, envVars, sw, t_delivery, tw, hv>>

\* SIGINT/SIGTERM reaches the process: signal_handler starts and tests
\* has_consumed_message.
OtherSignal ==
    /\ ow.pc \notin Dead \cup {"sig_ack", "sig_disconnect"}
    /\ signals < MaxSignals
    /\ signals' = signals + 1
    /\ ow' = IF ow.has_consumed_message THEN [ow EXCEPT !.pc = "sig_ack"]
             ELSE StGone("sig_disconnect")
    /\ UNCHANGED <<storeVars, remote, chanVars, faults, restarts, sw, tw, hv>>

\* signal_handler -> __handle_message_failure(interruption=True): the flag
\* is cleared and the delivery acknowledged; nothing is written to the store.
OtherSigAck ==
    /\ ow.pc = "sig_ack"
    /\ ow.current_message_delivery_tag = o_delivery.tag
    /\ o_delivery' = Acked(o_delivery, "interrupted")
    /\ ow' = StGone("sig_disconnect")
    /\ UNCHANGED <<storeVars, remote, msgKind, subMsg, stFresh, stReturned,
                   s_delivery, envVars, sw, t_delivery, tw, hv>>

\* signal_handler: rmq_consumer.disconnect() and exit(0).  The channel
\* returns a delivery that is still open to the queue.
OtherSigDisconnect ==
    /\ ow.pc = "sig_disconnect"
    /\ ow' = StGone("exited")
    /\ stReturned' = IF o_delivery.open
                       THEN [job |-> o_delivery.job, kind |-> o_delivery.kind]
                       ELSE stReturned
    /\ UNCHANGED <<storeVars, remote, msgKind, subMsg, stFresh, s_delivery,
                   o_delivery, envVars, sw, t_delivery, tw, hv>>

\* The supervisor starts a new status worker process.
OtherRestart ==
    /\ ow.pc \in Dead
    /\ restarts < MaxRestarts
    /\ restarts' = restarts + 1
    /\ stReturned' = IF o_delivery.open
                       THEN [job |-> o_delivery.job, kind |-> o_delivery.kind]
                       ELSE stReturned
    /\ o_delivery' = NoDelivery
    /\ ow' = StFresh
    /\ UNCHANGED <<storeVars, remote, msgKind, subMsg, stFresh, s_delivery, faults,
                   signals, sw, t_delivery, tw, hv>>

OtherStatusWorker ==
    \/ OtherDeliver \/ OtherDecode \/ OtherDbRead \/ OtherPoll \/ OtherUpdateHandle \/ OtherConvert
    \/ OtherLogSuccess \/ OtherWsFromHpc \/ OtherJobFromHpc \/ OtherDownload \/ OtherExtract
    \/ OtherWsReadySuccess \/ OtherJobSuccess \/ OtherStatsSuccess
    \/ OtherLogFailed \/ OtherWsReadyFailed \/ OtherJobFailed \/ OtherStatsFailed
    \/ OtherClearFlag \/ OtherAck \/ OtherFailFlag \/ OtherFailAck
    \/ OtherSignal \/ OtherSigAck \/ OtherSigDisconnect \/ OtherRestart

\* Two JobStatusWorker instances on the status queue after the submit worker
\* has handled the submission of job 1 and gone idle: the job and its
\* workspace are PENDING, its handle is recorded and the gateway knows the
\* remote job; status messages are still to come.
Init28 ==
    /\ jobState = [j \in Jobs |-> IF j = 1 THEN "PENDING" ELSE "QUEUED"]
    /\ wsState = [j \in Jobs |-> IF j = 1 THEN "PENDING" ELSE "QUEUED"]
    /\ fileGroups = [j \in Jobs |-> "ORIGINAL"]
    /\ handles = [j \in Jobs |-> IF j = 1 THEN <<[state |-> "UNSET", slurm_id |-> 1]>>
                                  ELSE << >>]
    /\ stats = [pages_succeed |-> 0, pages_failed |-> 0]
    /\ pagesFor = [j \in Jobs |-> [pages_succeed |-> 0, pages_failed |-> 0]]
    /\ remote = <<[job |-> 1, state |-> "PENDING"]>>
    /\ msgKind = [j \in Jobs |-> "ok"]
    /\ subMsg = [j \in Jobs |-> IF j = 1 THEN "acked" ELSE "ready"]
    /\ stFresh = MaxStatusMsgs
    /\ stReturned = NoMessage
    /\ s_delivery = [tag |-> 1, job |-> 1, kind |-> "ok", open |-> FALSE,
                     acks |-> 1, end |-> "pending"]
    /\ t_delivery = NoDelivery
    /\ faults = 0 /\ signals = 0 /\ restarts = 0
    /\ sw = [SubFresh EXCEPT !.current_message_delivery_tag = 1,
                             !.current_message_user_id = 1,
                             !.current_message_ws_id = 1,
                             !.current_message_job_id = 1,
                             !.slurm_job_id = 1]
    /\ tw = StFresh
    /\ o_delivery = NoDelivery
    /\ ow = StFresh
    /\ hv = NoPoll

Next28 == StatusWorker \/ OtherStatusWorker

Spec28 == Init28 /\ [][Next28]_vars

(* ------------------------------ Harvester ------------------------------ *)
\* The largest tries argument of poll_workflow_job_state.
MaxTries == 3

\* What a state request can come to: the server answers with the job's
\* state, answers without a job_state field ("none"), or the request itself
\* raises ("error").
HarvesterAnswers == StateJob \cup {"none", "error"}

\* get_workflow_job_state: the job_state field of the response; a missing
\* field raises ValueError, a failing request raises its own error.
get_workflow_job_state(a) == IF a \in {"none", "error"} THEN "raise" ELSE a

\* poll_workflow_job_state is called with 0..MaxTries tries and a wait time
\* that sleep accepts; the broker is at rest in its initial state.
Init34 ==
    /\ jobState = [j \in Jobs |-> "QUEUED"]
    /\ wsState = [j \in Jobs |-> "QUEUED"]
    /\ fileGroups = [j \in Jobs |-> "ORIGINAL"]
    /\ handles = [j \in Jobs |-> << >>]
    /\ stats = [pages_succeed |-> 0, pages_failed |-> 0]
    /\ pagesFor = [j \in Jobs |-> [pages_succeed |-> 0, pages_failed |-> 0]]
    /\ remote = << >>
    /\ msgKind = [j \in Jobs |-> "ok"]
    /\ subMsg = [j \in Jobs |-> "ready"]
    /\ stFresh = MaxStatusMsgs
    /\ stReturned = NoMessage
    /\ s_delivery = NoDelivery
    /\ t_delivery = NoDelivery
    /\ faults = 0 /\ signals = 0 /\ restarts = 0
    /\ sw = SubFresh
    /\ tw = StFresh
    /\ o_delivery = NoDelivery
    /\ ow = StFresh
    /\ \E tries \in 0..MaxTries :
           hv = [NoPoll EXCEPT !.pc = "while", !.tries = tries, !.tries_left = tries]

\* while tries_left > 0; the return False after the loop.
PollWhile ==
    /\ hv.pc = "while"
    /\ hv' = IF hv.tries_left > 0 THEN [hv EXCEPT !.pc = "query"]
             ELSE [hv EXCEPT !.pc = "returned", !.result = "False"]
    /\ UNCHANGED brokerVars

\* A loop body that takes a job still running on the last try for done.
PollQueryLenient ==
    /\ hv.pc = "query"
    /\ \E a \in HarvesterAnswers :
        LET workflow_job_state == get_workflow_job_state(a) IN
        hv' = [hv EXCEPT
            !.seen = Append(@, workflow_job_state),
            !.pc = IF workflow_job_state \in {"raise", "SUCCESS", "FAILED"}
                        \/ (workflow_job_state = "RUNNING" /\ hv.tries_left = 1)
                     THEN "returned" ELSE "while",
            !.result = IF workflow_job_state = "SUCCESS"
                            \/ (workflow_job_state = "RUNNING" /\ hv.tries_left = 1)
                         THEN "True"
                       ELSE IF workflow_job_state \in {"raise", "FAILED"} THEN "False"
                       ELSE @,
            !.tries_left = IF workflow_job_state \in {"raise", "SUCCESS", "FAILED"}
                             THEN @ ELSE @ - 1]
    /\ UNCHANGED brokerVars

\* The loop body: sleep, one state query in its try block, the two returns
\* on SUCCESS and FAILED, else tries_left -= 1.
PollQuery ==
    /\ hv.pc = "query"
    /\ \E a \in HarvesterAnswers :
        LET workflow_job_state == get_workflow_job_state(a) IN
        hv' = [hv EXCEPT
            !.seen = Append(@, workflow_job_state),
            !.pc = IF workflow_job_state \in {"raise", "SUCCESS", "FAILED"}
                     THEN "returned" ELSE "while",
            !.result = IF workflow_job_state = "SUCCESS" THEN "True"
                       ELSE IF workflow_job_state \in {"raise", "FAILED"} THEN "False"
                       ELSE @,
            !.tries_left = IF workflow_job_state \in {"raise", "SUCCESS", "FAILED"}
                             THEN @ ELSE @ - 1]
    /\ UNCHANGED brokerVars

poll_workflow_job_state == PollWhile \/ PollQuery

\* The call runs on its own thread of control: a statement that can be
\* executed is executed, and every state request returns or raises.
Spec34 == Init34 /\ [][poll_workflow_job_state]_vars /\ WF_vars(poll_workflow_job_state)

(* ------------------------------- claims -------------------------------- *)
\* The job states from which no further transition is meant to occur.
Terminal == {"SUCCESS", "FAILED"}
\* A worker is at rest when it waits for a message or its process is gone,
\* and no delivery to it is waiting for the acknowledgement.
SubAtRest == sw.pc \in {"idle"} \cup Dead /\ ~s_delivery.open
StAtRest == tw.pc \in {"idle"} \cup Dead /\ ~t_delivery.open
\* The remote jobs submitted for job j.
SubmittedFor(j) == {id \in 1..Len(remote) : remote[id].job = j}

\* C1: whenever the workers have finished the messages delivered to them
\* (every delivery acknowledged), every job in SUCCESS or FAILED has its
\* workspace in READY.
C1_TerminalJobWorkspaceReady ==
    (SubAtRest /\ StAtRest) =>
        \A j \in Jobs : jobState[j] \in Terminal => wsState[WorkspaceOf(j)] = "READY"

\* C2: the submit worker acknowledges every consumed message exactly once:
\* a delivery is never acknowledged twice, and once its handling has ended
\* (the handler returned or the process ended) it has been acknowledged.
C2_SubmitAcksExactlyOnce ==
    /\ s_delivery.acks <= 1
    /\ (s_delivery.tag # None /\ sw.pc \in {"idle"} \cup Dead) => s_delivery.acks = 1

\* C3: no failure inside the status worker's handler leaves the handler and
\* stops the consume loop; the handled message is acknowledged exactly once
\* and the worker waits for the next one.
C3_StatusNoErrorEscapes ==
    /\ tw.pc # "crashed"
    /\ t_delivery.acks <= 1
    /\ (t_delivery.tag # None /\ tw.pc = "idle") => t_delivery.acks = 1

\* C4: the pages added to the user's counters on behalf of a job are never
\* more than its workspace's pages_amount, and are exactly that amount once
\* the job is SUCCESS or FAILED and the workers are at rest.
C4_StatsOncePerTerminalJob ==
    \A j \in Jobs :
        /\ pagesFor[j].pages_succeed + pagesFor[j].pages_failed
              <= PagesAmount(WorkspaceOf(j))
        /\ (SubAtRest /\ StAtRest /\ jobState[j] \in Terminal) =>
              pagesFor[j].pages_succeed + pagesFor[j].pages_failed
                  = PagesAmount(WorkspaceOf(j))

\* C5: after the submit worker has finished a well-formed message whose
\* staging and remote submit succeeded (stated here for the handlings that
\* end on the success path, where the handle was persisted as well), exactly
\* one RemoteJobHandle exists for the job and it holds the id the gateway
\* returned for this message.
C5_OneHandleWithReturnedId ==
    (sw.pc = "idle" /\ s_delivery.end = "pending") =>
        /\ Len(handles[s_delivery.job]) = 1
        /\ handles[s_delivery.job][1].slurm_id = sw.slurm_job_id

\* C6: at most one RemoteJobHandle is created and at most one remote job is
\* submitted per job id.
C6_AtMostOneHandleAndSubmit ==
    \A j \in Jobs : Len(handles[j]) <= 1 /\ Cardinality(SubmittedFor(j)) <= 1

\* C7: when the submit worker has finished a message by marking its job
\* FAILED no RemoteJobHandle exists for that job, and when it has finished
\* by setting the job PENDING one exists.
C7_HandleOnlyAfterSuccess ==
    /\ (s_delivery.end \in {"failed", "interrupted"} /\ s_delivery.kind # "bad_body"
          /\ jobState[s_delivery.job] = "FAILED")
          => handles[s_delivery.job] = << >>
    /\ s_delivery.end = "pending" => handles[s_delivery.job] # << >>

\* The status worker's handler has done all its work on path "ack" (no step
\* failed) or "fail_ack" (a step failed and was caught); only the
\* acknowledgement is left, and the handler's locals are still there.
StHandled == tw.pc = "ack"
StEnded == tw.pc \in {"ack", "fail_ack"}
StPages == PagesAmount(WorkspaceOf(t_delivery.job))
\* The handler loaded the job and the gateway answered its poll.
StPolled == tw.old_job_state # "none" /\ tw.new_slurm_job_state # "none"

\* C8: a status message for a job not stored as SUCCESS, a polled state that
\* converts to SUCCESS and no failing step: the handler has set the job
\* SUCCESS and the workspace READY, added exactly pages_amount to
\* pages_succeed and nothing to pages_failed.
C8_SuccessTransition ==
    (StHandled /\ StPolled /\ tw.old_job_state # "SUCCESS"
        /\ convert_from_slurm_job(tw.new_slurm_job_state) = "SUCCESS") =>
        /\ tw.wrote.job = "SUCCESS"
        /\ tw.wrote.ws = "READY"
        /\ tw.wrote.pages_succeed = StPages
        /\ tw.wrote.pages_failed = 0

\* C8 witness: a SUCCESS transition that ran to its end, seen in the store.
C8_Witness ==
    /\ StHandled /\ StPolled /\ tw.old_job_state = "PENDING"
    /\ tw.new_slurm_job_state = "COMPLETED"
    /\ jobState[t_delivery.job] = "SUCCESS"
    /\ wsState[WorkspaceOf(t_delivery.job)] = "READY"
    /\ stats.pages_succeed = StPages /\ stats.pages_failed = 0

C10_TerminalJobNoOp ==
    (tw.old_job_state \in Terminal) =>
        /\ tw.wrote.pages_succeed = 0
        /\ tw.wrote.pages_failed = 0
        /\ tw.wrote.fg = "none"
        /\ tw.wrote.downloads = 0

\* The submit worker's handler has returned from the delivery s_delivery
\* (no exception left it and no signal ended the process).
SubReturned == sw.pc = "idle" /\ s_delivery.tag # None

SubFailedAt(steps) ==
    SubReturned /\ s_delivery.end = "failed" /\ sw.failed_at \in steps

\* C12: when the handler has returned from a message whose workspace
\* transfer or remote submit failed, pages_failed has grown by the
\* workspace's page count on behalf of the job, the job is FAILED, the
\* workspace is READY and the delivery is acknowledged once and not requeued.
C12_StagingFailure ==
    SubFailedAt({"put_ws", "stats_failed"}) =>
        /\ pagesFor[s_delivery.job].pages_failed = PagesAmount(WorkspaceOf(s_delivery.job))
        /\ jobState[s_delivery.job] = "FAILED"
        /\ wsState[WorkspaceOf(s_delivery.job)] = "READY"
        /\ s_delivery.acks = 1
        /\ subMsg[s_delivery.job] = "acked"

\* C13: when the submit worker's signal handler has acknowledged the message
\* in flight, the message's job is FAILED and its workspace READY.
C13_SubmitSignalFinalizes ==
    s_delivery.end = "interrupted" =>
        /\ jobState[s_delivery.job] = "FAILED"
        /\ wsState[WorkspaceOf(s_delivery.job)] = "READY"

\* C14: when the status worker's signal handler has acknowledged the message
\* in flight, the message's job is FAILED and its workspace READY; neither
\* is left in TRANSFERRING_FROM_HPC.
C14_StatusSignalFinalizes ==
    t_delivery.end = "interrupted" =>
        /\ jobState[t_delivery.job] = "FAILED"
        /\ wsState[WorkspaceOf(t_delivery.job)] = "READY"

\* C15: a job whose stored state is SUCCESS or FAILED keeps that state in
\* every step of either worker.
C15_TerminalStateIsFinal ==
    [][\A j \in Jobs : jobState[j] \in Terminal => jobState'[j] = jobState[j]]_vars

\* The submit worker takes the step from position a to position b.
SubStep(a, b) == sw.pc = a /\ sw'.pc = b

Paired == {"TRANSFERRING_TO_HPC", "PENDING", "TRANSFERRING_FROM_HPC"}

\* C17: whenever both handlers have returned (each worker waits for its next
\* message), every job in TRANSFERRING_TO_HPC, PENDING or
\* TRANSFERRING_FROM_HPC has its workspace in the state of the same name.
C17_JobAndWorkspaceInStep ==
    (sw.pc = "idle" /\ tw.pc = "idle") =>
        \A j \in Jobs : jobState[j] \in Paired => wsState[WorkspaceOf(j)] = jobState[j]

\* C18: no delivery is acknowledged more than once, and a consumed message
\* goes back to the queue only through the disconnect of a worker that is
\* shutting down or the lost connection of a dead one, never through a
\* step of a handler (no negative acknowledgement, no requeue).
C18_AckOnlyNeverRequeue ==
    [][/\ s_delivery'.acks <= 1
       /\ t_delivery'.acks <= 1
       /\ \A j \in Jobs : (subMsg[j] # "ready" /\ subMsg'[j] = "ready") =>
              (sw.pc = "sig_disconnect" \/ sw.pc \in Dead) /\ subMsg[j] = "unacked"
       /\ (stReturned' # stReturned /\ stReturned' # NoMessage) =>
              (tw.pc = "sig_disconnect" \/ tw.pc \in Dead)
      ]_vars

\* C18 witness: the submit worker was interrupted after a failed remote
\* submit, acknowledged once and has shut down; the message is not back in
\* the queue.
C18_Witness ==
    /\ sw.pc = "exited" /\ s_delivery.end = "interrupted"
    /\ s_delivery.acks = 1 /\ subMsg[s_delivery.job] = "acked"
    /\ pagesFor[s_delivery.job].pages_failed > 0

\* What a conversion can mean for the job: RUNNING leaves the job as it is.
Outcomes == {"PENDING", "RUNNING", "SUCCESS", "FAILED"}

SubReadFailed ==
    sw.failed_at = "db_read" /\ sw.pc \in {"fail_job", "fail_ws", "fail_ack"}

\* C20: after a failed read of the workflow or workspace record the failure
\* finalization runs to its acknowledgement (it is not broken off by an
\* error), at which point the job is FAILED, the workspace READY and the
\* delivery acknowledged once; no step of it submits a remote job, creates a
\* RemoteJobHandle or changes the stats.
C20_ReadFailure ==
    [][/\ SubReadFailed =>
            /\ sw'.pc # "crashed"
            /\ sw' # sw => UNCHANGED <<handles, remote, stats>>
       /\ (SubReadFailed /\ SubStep("fail_ack", "idle")) =>
            /\ jobState[s_delivery.job] = "FAILED"
            /\ wsState[WorkspaceOf(s_delivery.job)] = "READY"
            /\ s_delivery'.acks = 1
      ]_vars

\* The status worker is in __handle_message_failure because the job, its
\* workspace or its handle could not be loaded for a decoded message.
StLoadFailed ==
    /\ tw.pc \in {"fail_flag", "fail_ack"}
    /\ t_delivery.kind = "ok" /\ tw.old_job_state = "none"

\* C21: when the status worker cannot load the job, the workspace or the
\* handle, neither the load nor the failure path that follows writes to the
\* store or calls the gateway, and the failure path acknowledges the
\* delivery once.
C21_LoadFailureDrops ==
    [][/\ ((tw.pc = "db_read" \/ StLoadFailed) /\ tw' # tw) =>
            UNCHANGED <<storeVars, remote>>
       /\ StLoadFailed =>
            tw.wrote = NoEffect /\ tw.new_slurm_job_state = "none"
       /\ (StLoadFailed /\ tw.pc = "fail_ack" /\ tw'.pc = "idle") =>
            t_delivery'.acks = 1
      ]_vars

\* C21 witness: a status message for a job that was never submitted is
\* about to be acknowledged and dropped.
C21_Witness ==
    /\ StLoadFailed /\ tw.pc = "fail_ack"
    /\ handles[t_delivery.job] = << >> /\ jobState[t_delivery.job] = "QUEUED"

\* The handler has converted the polled state and found the job's loaded
\* state.
StSameState == tw.new_job_state # "none" /\ tw.new_job_state = tw.old_job_state

\* C22: when the converted state equals the job's stored state the handler
\* goes straight to its acknowledgement (or to the signal handler's, when
\* interrupted): it has written nothing to the job,
\* the workspace or the stats and fetched neither log nor results, none of
\* its steps changes them, and it acknowledges the delivery once.
C22_SameStateNoAction ==
    [][/\ StSameState =>
            tw.pc \in {"clear_flag", "ack", "sig_ack"} /\ tw.wrote = NoEffect
       /\ (StSameState /\ tw' # tw) =>
            UNCHANGED <<jobState, wsState, fileGroups, stats, pagesFor>>
       /\ (StSameState /\ tw.pc = "ack" /\ tw'.pc = "idle") =>
            t_delivery'.acks = 1
      ]_vars

\* C22 witness: a second status message for a job that is SUCCESS, its
\* remote job still reported as completed.
C22_Witness ==
    /\ StHandled /\ StSameState /\ tw.old_job_state = "SUCCESS"
    /\ tw.new_slurm_job_state = "COMPLETED"
    /\ stats.pages_succeed = StPages

\* The handler has polled the gateway and is past the handle update, no
\* step having failed or been interrupted.
StPastUpdate ==
    /\ tw.new_slurm_job_state # "none"
    /\ tw.pc \notin {"poll", "update_handle", "fail_flag", "fail_ack", "sig_ack"}

\* C23: once the handler is past the handle update the job's handle holds
\* the polled state; the handle is written exactly when the polled state
\* differs from the one loaded, whatever the polled state converts to.
C23_HandleMirrorsPoll ==
    [][/\ StPastUpdate => GetHandle(t_delivery.job).state = tw.new_slurm_job_state
       /\ (tw.pc = "poll" /\ tw'.pc = "convert") =>
            tw'.new_slurm_job_state = tw.old_slurm_job_state /\ UNCHANGED handles
       /\ (tw.pc = "poll" /\ tw'.pc = "update_handle") =>
            tw'.new_slurm_job_state # tw.old_slurm_job_state
       /\ (tw.pc = "update_handle" /\ tw'.pc = "convert") =>
            GetHandle(t_delivery.job)'.state = tw.new_slurm_job_state
      ]_vars

\* C23 witness: the scheduler reported running for a PENDING job; the handle
\* was updated though the job is left as it is.
C23_Witness ==
    /\ StHandled /\ tw.new_slurm_job_state = "RUNNING"
    /\ tw.old_slurm_job_state # "RUNNING" /\ tw.old_job_state = "PENDING"
    /\ GetHandle(t_delivery.job).state = "RUNNING"
    /\ tw.wrote = NoEffect

\* The result METS could not be read: the extraction gave the sentinel.
StCorrupted == tw.updated_file_groups = "CORRUPTED FILE GROUPS"

\* C24: an unreadable result METS does not abort the SUCCESS transition:
\* the extraction always hands on to the workspace update, and a handling
\* that reaches its acknowledgement with the sentinel has set the workspace
\* READY with the sentinel as file_groups and the job SUCCESS, has added
\* pages_amount to pages_succeed and acknowledges the delivery once.
C24_CorruptedMetsStillSucceeds ==
    [][/\ (tw.pc = "extract" /\ tw' # tw /\ tw'.pc # "sig_ack") =>
            tw'.pc = "ws_ready_success"
       /\ StCorrupted => tw.pc \notin {"clear_flag", "ack"} \/
            /\ tw.wrote.ws = "READY"
            /\ tw.wrote.fg = "CORRUPTED FILE GROUPS"
            /\ tw.wrote.job = "SUCCESS"
            /\ tw.wrote.pages_succeed = StPages
       /\ (StCorrupted /\ tw.pc = "ack" /\ tw'.pc = "idle") => t_delivery'.acks = 1
      ]_vars

\* C24 witness: a SUCCESS transition with an unreadable METS is about to be
\* acknowledged; the store shows the sentinel.
C24_Witness ==
    /\ StHandled /\ StCorrupted
    /\ fileGroups[WorkspaceOf(t_delivery.job)] = "CORRUPTED FILE GROUPS"
    /\ wsState[WorkspaceOf(t_delivery.job)] = "READY"
    /\ jobState[t_delivery.job] = "SUCCESS"
    /\ pagesFor[t_delivery.job].pages_succeed = StPages

\* C25: a worker instance has at most one message in flight: while a
\* delivery is open its handler is busy, and when the channel hands it the
\* next message (the tag grows) the handler has returned and the delivery
\* before has been acknowledged once.
C25_OneInFlightInOrder ==
    [][/\ s_delivery.open => sw.pc # "idle"
       /\ t_delivery.open => tw.pc # "idle"
       /\ (s_delivery.tag # None /\ s_delivery'.tag > s_delivery.tag) =>
            sw.pc = "idle" /\ ~s_delivery.open /\ s_delivery.acks = 1
       /\ (t_delivery.tag # None /\ t_delivery'.tag > t_delivery.tag) =>
            tw.pc = "idle" /\ ~t_delivery.open /\ t_delivery.acks = 1
      ]_vars

\* C25 witness: each worker instance is handling its second message.
C25_Witness ==
    /\ s_delivery.tag = 2 /\ s_delivery.open /\ sw.pc = "db_read"
    /\ t_delivery.tag = 2 /\ t_delivery.open /\ tw.pc = "poll"

StStep(a, b) == tw.pc = a /\ tw'.pc = b

\* C27: in the SUCCESS transition the workspace and the job are stored as
\* TRANSFERRING_FROM_HPC when the result transfer runs, the workspace is
\* stored READY when the job is set SUCCESS, the stats are increased after
\* both, and at no point of the transition has the handler set the job
\* SUCCESS without having set the workspace READY.
C27_SuccessOrder ==
    [][/\ StStep("download", "extract") =>
            /\ wsState[WorkspaceOf(t_delivery.job)] = "TRANSFERRING_FROM_HPC"
            /\ tw.wrote.job = "TRANSFERRING_FROM_HPC"
       /\ StStep("job_success", "stats_success") =>
            /\ wsState[WorkspaceOf(t_delivery.job)] = "READY"
            /\ jobState'[t_delivery.job] = "SUCCESS"
            /\ tw.wrote.pages_succeed = 0
       /\ StStep("stats_success", "clear_flag") =>
            /\ wsState[WorkspaceOf(t_delivery.job)] = "READY"
            /\ tw.wrote.job = "SUCCESS"
            /\ tw'.wrote.pages_succeed = StPages
       /\ tw.wrote.job = "SUCCESS" => tw.wrote.ws = "READY"
      ]_vars

\* C27 witness: the transition is between the job's SUCCESS and the stats.
C27_Witness ==
    /\ tw.pc = "stats_success"
    /\ jobState[t_delivery.job] = "SUCCESS"
    /\ wsState[WorkspaceOf(t_delivery.job)] = "READY"
    /\ stats.pages_succeed = 0

\* C28: when two JobStatusWorker instances handle status messages of one job
\* while the gateway reports a final state, the terminal transition is
\* applied once: the statistics are increased by the workspace's pages no
\* more than once for the job.
C28_TerminalTransitionOnce ==
    \A j \in Jobs :
        pagesFor[j].pages_succeed + pagesFor[j].pages_failed
            <= PagesAmount(WorkspaceOf(j))

\* C29: the failure finalization of the submit worker (__handle_message_failure
\* and the signal handler's branch for a consumed message) changes only the
\* job and the workspace that the message being handled names; a message
\* that fails before its job_id is read, or a signal right after delivery,
\* changes no job or workspace of an earlier message.
C29_FailureTouchesOwnJobOnly ==
    [][(sw.pc \in {"fail_job", "fail_ws", "sig_fail_job"} /\ sw' # sw) =>
          \A j \in Jobs :
              /\ jobState'[j] # jobState[j] => j = s_delivery.job
              /\ wsState'[WorkspaceOf(j)] # wsState[WorkspaceOf(j)] =>
                     j = s_delivery.job
      ]_vars

\* C30: every remote job id that the submit returned is recorded in a
\* RemoteJobHandle by the time the message is acknowledged: the worker never
\* acknowledges a message for whose job a remote job has been submitted
\* without a handle that holds its id.
C30_SubmittedJobHasHandleAtAck ==
    [][s_delivery'.acks > s_delivery.acks =>
          \A id \in SubmittedFor(s_delivery.job) :
              \E h \in 1..Len(handles[s_delivery.job]) :
                  handles[s_delivery.job][h].slurm_id = id
      ]_vars

\* C31: a termination signal at any point of a handling never makes a
\* delivery acknowledged twice: each delivery of either worker is
\* acknowledged at most once by the handler and the signal handler together,
\* and whichever of them is about to acknowledge finds it unacknowledged.
C31_SignalNeverAcksTwice ==
    /\ s_delivery.acks <= 1
    /\ t_delivery.acks <= 1
    /\ sw.pc \in {"ack", "fail_ack", "sig_ack"} => s_delivery.acks = 0
    /\ tw.pc \in {"ack", "fail_ack", "sig_ack"} => t_delivery.acks = 0

\* The signal reached the status worker between two store writes of the
\* SUCCESS transition and the delivery carries the one acknowledgement of
\* the signal handler.
C31_Witness ==
    /\ tw.pc = "sig_disconnect" /\ t_delivery.end = "interrupted"
    /\ t_delivery.acks = 1
    /\ jobState[t_delivery.job] = "TRANSFERRING_FROM_HPC"

\* The handler loaded a job that an earlier, cut-short SUCCESS transition
\* left in TRANSFERRING_FROM_HPC.
StResumes == tw.old_job_state = "TRANSFERRING_FROM_HPC"

\* C32: a job left in TRANSFERRING_FROM_HPC is not stuck: a later status
\* message for it, handled without a failing step while the gateway reports
\* a state that converts to SUCCESS, runs the whole SUCCESS transition: the
\* handler sets the job SUCCESS and the workspace READY, fetches the results
\* and adds pages_amount to pages_succeed once, nothing to pages_failed.
C32_CutShortTransferResumes ==
    (StHandled /\ StResumes /\ tw.new_job_state = "SUCCESS") =>
        /\ tw.wrote.job = "SUCCESS"
        /\ tw.wrote.ws = "READY"
        /\ tw.wrote.downloads = 1
        /\ tw.wrote.pages_succeed = StPages
        /\ tw.wrote.pages_failed = 0
        /\ wsState[WorkspaceOf(t_delivery.job)] = "READY"
        /\ pagesFor[t_delivery.job].pages_succeed >= StPages

C32_Witness ==
    /\ StHandled /\ StResumes /\ tw.new_job_state = "SUCCESS"
    /\ jobState[t_delivery.job] = "SUCCESS"
    /\ pagesFor[t_delivery.job].pages_succeed = StPages

\* The polled state converted to a non-terminal state that differs from the
\* job state the handler loaded.
StOtherNonTerminal ==
    /\ tw.new_job_state \in {"PENDING", "RUNNING"}
    /\ tw.new_job_state # tw.old_job_state

PollNonFinal(i) == hv.seen[i] \notin {"raise", "SUCCESS", "FAILED"}

\* What poll_workflow_job_state has done and returned is as stated.
PollAsStated ==
    /\ Len(hv.seen) <= hv.tries
    /\ \A i \in 1..(Len(hv.seen) - 1) : PollNonFinal(i)
    /\ hv.pc # "returned" =>
           /\ hv.result = "none"
           /\ \A i \in 1..Len(hv.seen) : PollNonFinal(i)
           /\ hv.tries_left = hv.tries - Len(hv.seen)
    /\ hv.pc = "returned" =>
           /\ hv.result \in {"True", "False"}
           /\ hv.result = "True" <=>
                  (hv.seen # << >> /\ hv.seen[Len(hv.seen)] = "SUCCESS")
           /\ hv.result = "False" =>
                  \/ hv.seen # << >> /\ hv.seen[Len(hv.seen)] \in {"FAILED", "raise"}
                  \/ /\ Len(hv.seen) = hv.tries
                     /\ \A i \in 1..Len(hv.seen) : PollNonFinal(i)

\* C34: poll_workflow_job_state always returns, after at most `tries` state
\* queries; it returns True only if a query gave SUCCESS, False as soon as a
\* query gives FAILED or raises, and False when all `tries` queries gave
\* non-final states.
C34_PollReturnsWithinTries == []PollAsStated /\ <>(hv.pc = "returned")

\* The call used all its tries but the last on running jobs and returned
\* True on the last one.
C34_Witness ==
    /\ hv.pc = "returned" /\ hv.result = "True"
    /\ hv.tries = MaxTries /\ Len(hv.seen) = MaxTries

====
